---- MODULE Spec2Model ----
(***************************************************************************)
(* The CDC event processor: the consume loop of app/consumer.py, the       *)
(* handler registry of app/registry.py, the projection handlers of         *)
(* app/handlers, the MongoDB manager and the application lifecycle of      *)
(* app/main.py, together with the two external parties the code talks to:  *)
(* one partition of the Kafka log with the group's committed offset, and   *)
(* the document store.                                                     *)
(*                                                                         *)
(* Offsets are 0-based as in Kafka: the record at offset o is log[o + 1],  *)
(* and a committed offset c means "records 0 .. c-1 are done".             *)
(***************************************************************************)
EXTENDS Integers, Sequences, FiniteSets, TLC

\* ------------------------------------------------------------------ bounds
\* Number of records the upstream connector appends to the partition.
MaxLog == 2
\* Number of times the process is started again after it crashed or exited.
MaxRestarts == 1
MaxEvents == 3        \* records of the projection handlers in the log
MaxRegistered == 2    \* register calls made after the registry was built
MaxClients == 2       \* store clients one process creates

\* ---------------------------------------------------------------- settings
\* Faulty variants: auto commit switched on, and a fresh group starting at the
\* end of the log.
AutoCommitOn == TRUE
OffsetResetLatest == "latest"

\* app/config.py defaults.
kafka_enable_auto_commit == FALSE
kafka_auto_offset_reset == "earliest"

\* Python's None, and the absent committed offset of a fresh consumer group.
None == "None"
NoOffset == -1

\* ------------------------------------------------------- model of the data
\* payload.get(key): the value, or None when the key is absent.
Get(payload, key) == IF key \in DOMAIN payload THEN payload[key] ELSE None

\* The `after` image of an envelope. kind: "absent" (no such key), "null"
\* (JSON null, what Debezium sends for a delete), "dict". For a dict,
\* fields says whether it can become an OutboxEvent: "ok", "missing" (a
\* required field is absent; the empty dict is one), "baduuid" (event_id or
\* aggregate_id is no UUID4).
After(kind, fields, event_id, aggregate_id, event_type, created_at, payload) ==
    [kind |-> kind, fields |-> fields, event_id |-> event_id,
     aggregate_id |-> aggregate_id, event_type |-> event_type,
     created_at |-> created_at, payload |-> payload]

NoAfter(kind) == After(kind, "missing", None, None, None, None, << >>)

\* The raw value of a Kafka record. json: the bytes are well-formed JSON;
\* object: the JSON value is an object; op: the op key ("absent" when
\* missing); ts_ms, source: the key is present with the right type.
Raw(json, op, after) ==
    [json |-> json, object |-> json, op |-> op, ts_ms |-> json, source |-> json,
     after |-> after]

UserCreatedEvent ==
    After("dict", "ok", "e1", "u1", "UserCreated", "t1",
          [email |-> "a@x", username |-> "a", first_name |-> "A", last_name |-> "B"])
UserUpdatedEvent ==
    After("dict", "ok", "e2", "u1", "UserUpdated", "t2", [first_name |-> "C"])
ActivityCreatedEvent ==
    After("dict", "ok", "e3", "a1", "ActivityCreated", "t3",
          [title |-> "t", creator_user_id |-> "u1"])
ParticipantJoinedEvent ==
    After("dict", "ok", "e4", "a1", "ParticipantJoined", "t4", [user_id |-> "u2"])
\* The same user joins again: another event, with its own id and time.
ParticipantRejoinedEvent ==
    After("dict", "ok", "e7", "a1", "ParticipantJoined", "t7", [user_id |-> "u2"])
ActivityUpdatedEvent ==
    After("dict", "ok", "e5", "a1", "ActivityUpdated", "t5", [title |-> "t2"])
TestEvent ==
    After("dict", "ok", "e6", "x1", "TestEvent", "t6", << >>)

\* The record values the connector may append: one for each way a record
\* fares in the consume loop.
RawValues ==
    { Raw(FALSE, "absent", NoAfter("absent")),               \* not JSON
      Raw(TRUE, "c", NoAfter("absent")),                     \* no after key
      Raw(TRUE, "d", NoAfter("null")),                       \* Debezium delete
      Raw(TRUE, "d", NoAfter("dict")),                       \* delete, after = {}
      Raw(TRUE, "r", UserCreatedEvent),                      \* snapshot read
      Raw(TRUE, "c", NoAfter("dict")),                       \* after = {}
      Raw(TRUE, "c", [UserCreatedEvent EXCEPT !.fields = "baduuid"]),
      Raw(TRUE, "c", UserCreatedEvent),
      Raw(TRUE, "u", UserUpdatedEvent),
      Raw(TRUE, "t", UserCreatedEvent),                      \* truncate op
      Raw(TRUE, "c", TestEvent) }

\* Records of the activity handlers.
ActivityValues ==
    { Raw(TRUE, "c", ActivityCreatedEvent),
      Raw(TRUE, "c", ParticipantJoinedEvent),
      Raw(TRUE, "c", ParticipantRejoinedEvent),
      Raw(TRUE, "u", ActivityUpdatedEvent) }

\* The records of the projection handlers: well-formed envelopes of the five
\* event types that have a handler.
ProjectionValues ==
    { Raw(TRUE, "c", UserCreatedEvent), Raw(TRUE, "u", UserUpdatedEvent) }
        \cup ActivityValues

\* No record: the value of a message not yet fetched, and the slot of a record
\* the broker's retention has deleted.
NoValue == Raw(TRUE, "none", NoAfter("absent"))

\* value_deserializer: json.loads(m.decode("utf-8")) raises on bytes that are
\* not JSON. It runs inside the consumer's iterator, not in process_message.
DeserializerRaises(raw) == ~raw.json

\* DebeziumPayload(**message.value): op: str, ts_ms: int, after: Dict and
\* source: Dict are required; before is optional.
DebeziumPayloadValid(value) ==
    /\ value.object
    /\ value.op # "absent"
    /\ value.ts_ms
    /\ value.after.kind = "dict"
    /\ value.source

\* to_outbox_event: OutboxEvent(**self.after) validates the required fields.
OutboxEventValid(after) == after.fields = "ok"

\* ---------------------------------------------------------- document store
\* A field a document does not have, and the reading of the wall clock.
Missing == "missing"
Now == "now"

\* Three collections, each a function from _id to document.
EmptyStore == [users |-> << >>, activities |-> << >>, statistics |-> << >>]

\* f"{first} {last}".strip(), as the sequence of its non-empty words.
FullName(first, last) == SelectSeq(<<first, last>>, LAMBDA w : w # "")

\* payload.get(key, default).
GetOr(payload, key, default) == IF key \in DOMAIN payload THEN payload[key] ELSE default

\* Faulty variant: $push, which appends whether or not the value is there.
Push(array, x) == Append(array, x)

\* $addToSet on an array field.
AddToSet(array, x) ==
    IF \E i \in 1..Len(array) : array[i] = x THEN array ELSE Append(array, x)

\* $set of the keys of `fields` on a document.
SetFields(doc, fields) ==
    [k \in DOMAIN doc |-> IF k \in DOMAIN fields THEN fields[k] ELSE doc[k]]

\* The result of a store operation: the store after it, and whether the
\* handler raised.
Outcome(st, raised) == [store |-> st, raised |-> raised]

\* insert_one: DuplicateKeyError when the _id exists.
InsertOne(st, coll, id, doc) ==
    IF id \in DOMAIN st[coll]
    THEN Outcome(st, TRUE)
    ELSE Outcome([st EXCEPT ![coll] = (id :> doc) @@ st[coll]], FALSE)

\* Faulty variant: a created document lists nobody.
SeedNobody(creator) == << >>

\* "allowed_users": [creator], the list a created document starts with.
SeedAllowedUsers(creator) == <<creator>>

\* UserCreatedHandler.handle
UserCreatedHandle(st, event) ==
    LET payload == event.payload
        user_doc ==
            [email |-> Get(payload, "email"),
             username |-> Get(payload, "username"),
             name |-> FullName(GetOr(payload, "first_name", ""),
                               GetOr(payload, "last_name", "")),
             first_name |-> Get(payload, "first_name"),
             last_name |-> Get(payload, "last_name"),
             bio |-> Get(payload, "bio"),
             avatar_url |-> Get(payload, "avatar_url"),
             created_at |-> event.created_at,
             updated_at |-> Now,
             source_event_id |-> event.event_id,
             last_event_id |-> Missing,
             allowed_users |-> SeedAllowedUsers(event.aggregate_id)]
    IN  InsertOne(st, "users", event.aggregate_id, user_doc)

\* Faulty variant: no look at matched_count, a missing user goes unnoticed.
UserUpdatedIgnoreMissing(st, event) ==
    IF event.aggregate_id \in DOMAIN st.users
    THEN Outcome([st EXCEPT !.users[event.aggregate_id].last_event_id = event.event_id],
                 FALSE)
    ELSE Outcome(st, FALSE)

\* UserUpdatedHandler.handle: update_one with $set, ValueError when no
\* document matched.
UserUpdatedHandle(st, event) ==
    LET payload == event.payload
        user_id == event.aggregate_id
        names == IF "first_name" \in DOMAIN payload \/ "last_name" \in DOMAIN payload
                 THEN [name |-> FullName(GetOr(payload, "first_name", ""),
                                         GetOr(payload, "last_name", "")),
                       first_name |-> GetOr(payload, "first_name", ""),
                       last_name |-> GetOr(payload, "last_name", "")]
                 ELSE << >>
        copied == [k \in DOMAIN payload \cap {"email", "username", "bio", "avatar_url"}
                      |-> payload[k]]
        update_fields ==
            [updated_at |-> Now, last_event_id |-> event.event_id] @@ names @@ copied
    IN  IF user_id \in DOMAIN st.users
        THEN Outcome([st EXCEPT !.users[user_id] = SetFields(@, update_fields)], FALSE)
        ELSE Outcome(st, TRUE)

\* UserStatisticsHandler.handle: update_one with $inc, $set and upsert.
UserStatisticsHandle(st, event) ==
    LET id == "global_stats"
        old == IF id \in DOMAIN st.statistics THEN st.statistics[id].total_users ELSE 0
        doc == [total_users |-> old + 1, last_updated |-> Now]
    IN  Outcome([st EXCEPT !.statistics = (id :> doc) @@ @], FALSE)

\* ActivityCreatedHandler.handle. The fields type, coordinates, schedule and
\* max_count are copied from the payload like title and are left out.
ActivityCreatedHandle(st, event) ==
    LET payload == event.payload
        activity_doc ==
            [title |-> Get(payload, "title"),
             description |-> Get(payload, "description"),
             creator_id |-> Get(payload, "creator_user_id"),
             location_name |-> Get(payload, "location_name"),
             location_address |-> Get(payload, "location_address"),
             current_count |-> 0,
             list |-> << >>,
             status |-> "active",
             created_at |-> event.created_at,
             updated_at |-> Now,
             source_event_id |-> event.event_id,
             last_event_id |-> Missing,
             allowed_users |-> SeedAllowedUsers(Get(payload, "creator_user_id"))]
    IN  InsertOne(st, "activities", event.aggregate_id, activity_doc)

\* Faulty variant: the participant is listed and not authorized.
ParticipantJoinedListOnly(st, event) ==
    LET activity_id == event.aggregate_id
        entry == [user_id |-> Get(event.payload, "user_id"),
                  joined_at |-> event.created_at, status |-> "confirmed"]
    IN  IF activity_id \in DOMAIN st.activities
        THEN Outcome([st EXCEPT !.activities[activity_id] =
                        [@ EXCEPT !.list = AddToSet(@, entry),
                                  !.current_count = @ + 1,
                                  !.updated_at = Now,
                                  !.last_event_id = event.event_id]], FALSE)
        ELSE Outcome(st, TRUE)

\* ParticipantJoinedHandler.handle: one update_one with $addToSet, $inc, $set.
ParticipantJoinedHandle(st, event) ==
    LET activity_id == event.aggregate_id
        user_id == Get(event.payload, "user_id")
        entry == [user_id |-> user_id, joined_at |-> event.created_at,
                  status |-> "confirmed"]
    IN  IF activity_id \in DOMAIN st.activities
        THEN Outcome([st EXCEPT !.activities[activity_id] =
                        [@ EXCEPT !.list = AddToSet(@, entry),
                                  !.allowed_users = AddToSet(@, user_id),
                                  !.current_count = @ + 1,
                                  !.updated_at = Now,
                                  !.last_event_id = event.event_id]], FALSE)
        ELSE Outcome(st, TRUE)

\* ActivityUpdatedHandler.handle
ActivityUpdatedHandle(st, event) ==
    LET payload == event.payload
        activity_id == event.aggregate_id
        copied == [k \in DOMAIN payload \cap
                        {"title", "description", "status", "location_name",
                         "location_address"} |-> payload[k]]
        update_fields == [updated_at |-> Now, last_event_id |-> event.event_id] @@ copied
    IN  IF activity_id \in DOMAIN st.activities
        THEN Outcome([st EXCEPT !.activities[activity_id] = SetFields(@, update_fields)],
                     FALSE)
        ELSE Outcome(st, TRUE)

\* ------------------------------------------------------------------ handlers
\* The six handler classes of app/handlers. Handler0 and Handler1 stand for
\* handlers that override validate and write nothing, as the test doubles of
\* tests/test_consumer.py do.
EventTypeOf(h) ==
    CASE h = "UserCreatedHandler" -> "UserCreated"
      [] h = "UserStatisticsHandler" -> "UserCreated"
      [] h = "UserUpdatedHandler" -> "UserUpdated"
      [] h = "ActivityCreatedHandler" -> "ActivityCreated"
      [] h = "ActivityUpdatedHandler" -> "ActivityUpdated"
      [] h = "ParticipantJoinedHandler" -> "ParticipantJoined"
      [] OTHER -> "TestEvent"

OverridesValidate(h) == h \in {"Handler0", "Handler1"}

\* BaseEventHandler.validate returns True; an override may return either value
\* or raise.
ValidateOutcomes(h) == IF OverridesValidate(h) THEN {"true", "false", "raise"} ELSE {"true"}

\* handler.handle(event) against store st. store_ok says whether the store
\* answers; when it does not, the driver raises and nothing is written. A
\* test double writes nothing and raises when fails is chosen.
Handle(h, st, event, store_ok) ==
    IF ~store_ok THEN Outcome(st, TRUE)
    ELSE CASE h = "UserCreatedHandler" -> UserCreatedHandle(st, event)
           [] h = "UserStatisticsHandler" -> UserStatisticsHandle(st, event)
           [] h = "UserUpdatedHandler" -> UserUpdatedHandle(st, event)
           [] h = "ActivityCreatedHandler" -> ActivityCreatedHandle(st, event)
           [] h = "ActivityUpdatedHandler" -> ActivityUpdatedHandle(st, event)
           [] h = "ParticipantJoinedHandler" -> ParticipantJoinedHandle(st, event)
           [] OTHER -> Outcome(st, FALSE)

\* ------------------------------------------------------------------ registry
\* Faulty variant: a handler already in the list is not added again.
RegisterOnce(handlers, h) ==
    LET event_type == EventTypeOf(h)
        known == IF event_type \in DOMAIN handlers THEN handlers
                 ELSE (event_type :> << >>) @@ handlers
    IN  IF \E i \in 1..Len(known[event_type]) : known[event_type][i] = h
        THEN known
        ELSE [known EXCEPT ![event_type] = Append(@, h)]

\* Faulty variant: the handler is put in front of the list.
RegisterFirst(handlers, h) ==
    LET event_type == EventTypeOf(h)
        known == IF event_type \in DOMAIN handlers THEN handlers
                 ELSE (event_type :> << >>) @@ handlers
    IN  [known EXCEPT ![event_type] = <<h>> \o @]

\* HandlerRegistry.register: append to the list of the handler's event type.
Register(handlers, h) ==
    LET event_type == EventTypeOf(h)
        known == IF event_type \in DOMAIN handlers THEN handlers
                 ELSE (event_type :> << >>) @@ handlers
    IN  [known EXCEPT ![event_type] = Append(@, h)]

RECURSIVE RegisterAll(_, _)
RegisterAll(handlers, hs) ==
    IF hs = << >> THEN handlers
    ELSE RegisterAll(Register(handlers, Head(hs)), Tail(hs))

\* The register calls of HandlerRegistry._initialize_handlers, in order.
RegistrationOrder ==
    <<"UserCreatedHandler", "UserStatisticsHandler", "UserUpdatedHandler",
      "ActivityCreatedHandler", "ActivityUpdatedHandler", "ParticipantJoinedHandler">>

InitializeHandlers == RegisterAll(<< >>, RegistrationOrder)

\* HandlerRegistry.get_handlers: self._handlers.get(event_type, []).
GetHandlers(handlers, event_type) ==
    IF event_type \in DOMAIN handlers THEN handlers[event_type] ELSE << >>

\* Faulty variant: a lookup of an unknown type makes an entry for it, as
\* setdefault or a defaultdict would.
GetHandlersInserting(handlers, event_type) ==
    [handlers |-> IF event_type \in DOMAIN handlers THEN handlers
                  ELSE (event_type :> << >>) @@ handlers,
     returned |-> GetHandlers(handlers, event_type)]

\* A call of get_handlers as its caller sees it: the registry after the call
\* and the list returned. dict.get with a default adds no key.
GetHandlersCall(handlers, event_type) ==
    [handlers |-> handlers,
     returned |-> GetHandlers(handlers, event_type)]

\* HandlerRegistry.has_handlers.
HasHandlers(handlers, event_type) ==
    event_type \in DOMAIN handlers /\ Len(handlers[event_type]) > 0

\* HandlerRegistry.registered_event_types: the keys (their order is left out).
RegisteredEventTypes(handlers) == DOMAIN handlers

\* The handler classes of the application and two test handlers.
HandlerNames ==
    {"UserCreatedHandler", "UserStatisticsHandler", "UserUpdatedHandler",
     "ActivityCreatedHandler", "ActivityUpdatedHandler", "ParticipantJoinedHandler",
     "Handler0", "Handler1"}

\* The event types looked up: those of the handlers and one nobody handles.
EventTypes == { EventTypeOf(h) : h \in HandlerNames } \cup {"UnknownEvent"}

\* --------------------------------------------------------------------- state
VARIABLES
    \* the broker and the store: they outlive the process
    log,              \* the partition: a sequence of raw record values
    committed,        \* the group's committed offset, NoOffset when none
    store,            \* the document store
    \* the process
    registry,         \* handler_registry._handlers
    appPc,            \* where Application.run / main is
    conPc,            \* where the consume task is
    shutdown_event,   \* Application.shutdown_event
    running,          \* EventConsumer.running
    kafka,            \* EventConsumer.consumer: none, created, started, stopped
    mongo,            \* MongoDBManager._client: none, unpinged, connected
    position,         \* offset of the next record the consumer will fetch
    message,          \* offset of the record the loop took last, -1 when none
    message_value,    \* message.value: what the record holds
    hidx,             \* index of the handler the dispatch loop is at
    error_count,      \* EventConsumer._error_count
    processing_count, \* EventConsumer._processing_count
    taskError,        \* the exception the consume task ended with, or "none"
    appError,         \* Application.run raised
    exitCode,         \* exit status of the process, -1 while it runs
    \* history, read by the properties only
    restarts,         \* times the process was started again
    startPos,         \* position the current run began to fetch at
    result,           \* what process_message returned for message
    registered,       \* the handlers given to register(), in call order
    calls,            \* handlers the loop reached for message:
                      \* <<handler, what validate did, whether it raised,
                      \*   whether the store answered>>
    handled,          \* handlers whose handle was invoked for message
    writes,           \* store operations applied for message
    err0,             \* error_count when message was fetched
    proc0,            \* processing_count when message was fetched
    settled,          \* offsets whose process_message has returned, any run
    projected,        \* event ids of deliveries whose handlers all returned
    signalAt,         \* offset in dispatch when the signal arrived, else -1
    crashRec,         \* offset in flight, a handler returned, at a crash, while it
                      \* is not committed
    shutdowns,        \* calls of EventConsumer.shutdown in this run
    \* the objects as a caller sees them
    lastCall,         \* the last call made on the registry or the store manager
                      \* from outside the application:
                      \* <<method, argument, value returned, whether it raised>>
    opened,           \* store clients this process has created
    closed            \* store clients this process has closed

broker == <<log, committed, store>>
process == <<registry, appPc, conPc, shutdown_event, running, kafka, mongo, position,
             message, message_value, hidx, error_count, processing_count, taskError, appError,
             exitCode>>
history == <<restarts, startPos, result, registered, calls, handled, writes, err0, proc0, settled,
             projected, signalAt, crashRec, shutdowns>>
api == <<lastCall, opened, closed>>
vars == <<broker, process, history, api>>

\* The handlers registered: those of _initialize_handlers, or these and two
\* more for one more event type.
Registrations ==
    { RegistrationOrder, RegistrationOrder \o <<"Handler0", "Handler1">> }

\* A fresh process: Application() and setup_signal_handlers() have run.
FreshProcess ==
    /\ appPc = "connect"
    /\ conPc = "idle"
    /\ shutdown_event = FALSE
    /\ running = FALSE
    /\ kafka = "none"
    /\ mongo = "none"
    /\ position = 0
    /\ message = -1
    /\ message_value = NoValue
    /\ hidx = 0
    /\ error_count = 0
    /\ processing_count = 0
    /\ taskError = "none"
    /\ appError = FALSE
    /\ exitCode = -1
    /\ startPos = 0
    /\ result = "none"
    /\ calls = << >>
    /\ handled = << >>
    /\ writes = 0
    /\ err0 = 0
    /\ proc0 = 0
    /\ signalAt = -1
    /\ shutdowns = 0
    /\ opened = 0
    /\ closed = 0

Init ==
    /\ log = << >>
    /\ committed = NoOffset
    /\ store = EmptyStore
    /\ registered \in Registrations
    /\ registry = RegisterAll(<< >>, registered)
    /\ FreshProcess
    /\ restarts = 0
    /\ settled = {}
    /\ projected = {}
    /\ crashRec = -1
    /\ lastCall = <<"none", None, << >>, FALSE>>

Alive == appPc \notin {"exited", "crashed"}

\* The record at an offset, and the event of the record in flight.
RecordAt(offset) == log[offset + 1]
Event == message_value.after
Handlers == GetHandlers(registry, Event.event_type)

\* ------------------------------------------------------------ the consumer
\* What the broker holds for the group once the position may be committed
\* behind the loop's back: with enable_auto_commit the client commits the
\* position at any suspension point, without it never.
AutoCommit(offset, pos) ==
    IF kafka_enable_auto_commit THEN {offset, pos} ELSE {offset}

\* The broker's retention: a record below the group's committed offset is
\* never fetched again (see StartPosition), and the broker deletes it.
Retain(records, offset) ==
    [i \in 1..Len(records) |-> IF i <= offset THEN NoValue ELSE records[i]]

\* Faulty variant: the commit names the offset after the next record.
CommitPastNext(pos) == pos + 1

\* Faulty variant: the commit names the offset of the record itself, so the
\* group's offset stays one record behind.
CommitBehind(pos) == pos - 1

\* AIOKafkaConsumer.commit() without arguments commits the position: the
\* offset after the last record the consumer returned.
CommitOffset(pos) == pos

\* AIOKafkaConsumer.start(): fetching begins at the committed offset, and
\* where auto_offset_reset says when the group has none.
StartPosition(offset, end) ==
    IF offset # NoOffset THEN offset
    ELSE IF kafka_auto_offset_reset = "earliest" THEN 0 ELSE end

\* Faulty variant: the iterator hands out the same record again.
SamePosition(pos) == pos

\* The iterator returns the records of the partition in offset order: after
\* the record at pos comes the one at pos + 1.
NextPosition(pos) == pos + 1

\* Faulty variants: no check of op, and no check for an empty handler list.
ClassifyNoSkip(value, handlers) ==
    IF ~DebeziumPayloadValid(value) THEN "invalid"
    ELSE IF ~OutboxEventValid(value.after) THEN "invalid"
    ELSE IF GetHandlers(handlers, value.after.event_type) = << >> THEN "nohandlers"
    ELSE "dispatch"

ClassifyNoEmptyCheck(value, handlers) ==
    IF ~DebeziumPayloadValid(value) THEN "invalid"
    ELSE IF value.op \in {"d", "r"} THEN "skip"
    ELSE IF ~OutboxEventValid(value.after) THEN "invalid"
    ELSE "dispatch"

\* process_message up to the handler loop: "invalid" (an exception reaches the
\* outer except), "skip", "nohandlers", or "dispatch".
Classify(value, handlers) ==
    IF ~DebeziumPayloadValid(value) THEN "invalid"
    ELSE IF value.op \in {"d", "r"} THEN "skip"
    ELSE IF ~OutboxEventValid(value.after) THEN "invalid"
    ELSE IF GetHandlers(handlers, value.after.event_type) = << >> THEN "nohandlers"
    ELSE "dispatch"

\* Faulty variant: a handler that rejects the event is counted as failed.
ValidateFalseIsError(valid) == valid # "true"

\* Whether the turn of a handler whose validate did not return true ends in
\* the except clause: false is logged and the loop continues, an exception of
\* validate is caught like one of handle.
ValidateRaises(valid) == valid = "raise"

\* Faulty variant: an exception of a handler ends the loop.
NextHandlerAbort(i, n, raised) == IF raised THEN n + 1 ELSE i + 1

\* The handler loop after handler i of n returned or raised: the except
\* clause logs and the loop goes on with the next handler.
NextHandler(i, n, raised) == i + 1

\* The record of the last crash is remembered until its offset is committed.
StillPending(rec, offset) == IF rec # -1 /\ offset <= rec THEN rec ELSE -1

\* Faulty variant: shutdown() stops the consumer and leaves the flag set.
ShutdownKeepsRunning ==
    /\ UNCHANGED running
    /\ kafka' = IF kafka = "none" THEN "none" ELSE "stopped"
    /\ shutdowns' = shutdowns + 1

\* EventConsumer.shutdown: running = False, consumer.stop() when there is one.
\* stop() commits nothing unless auto commit is on.
ConsumerShutdown ==
    /\ running' = FALSE
    /\ kafka' = IF kafka = "none" THEN "none" ELSE "stopped"
    /\ shutdowns' = shutdowns + 1

\* The connector appends a record. Records the consumer has not reached
\* cannot influence it, so the log grows when the consumer has caught up.
Produce ==
    /\ Len(log) < MaxLog
    /\ conPc = "poll"
    /\ position = Len(log)
    /\ \E value \in RawValues : log' = Append(log, value)
    /\ UNCHANGED <<api, committed, store, process, history>>

\* The task's first step: consume() sets running and waits for a record.
ConsumeBegin ==
    /\ conPc = "created"
    /\ conPc' = "poll"
    /\ running' = TRUE
    /\ UNCHANGED <<api, broker, registry, appPc, shutdown_event, kafka, mongo, position,
                   message, message_value, hidx, error_count, processing_count, taskError, appError,
                   exitCode, history>>

\* The consume task ends with an exception: except Exception logs and
\* re-raises, finally runs shutdown().
ConsumeRaises(error) ==
    /\ conPc' = "done"
    /\ taskError' = error
    /\ ConsumerShutdown

\* The iterator raises a broker error (getone).
PollFail ==
    /\ conPc = "poll"
    /\ ConsumeRaises("broker")
    /\ UNCHANGED <<api, broker, registry, appPc, shutdown_event, mongo, position, message, message_value,
                   hidx, error_count, processing_count, appError, exitCode, restarts,
                   startPos, result, registered, calls, handled, writes, err0, proc0, settled,
                   projected,
                   signalAt, crashRec>>

\* The iterator reaches a record whose bytes the value_deserializer cannot
\* parse: the exception leaves the async for.
FetchUndecodable ==
    /\ conPc = "poll"
    /\ position < Len(log)
    /\ DeserializerRaises(RecordAt(position))
    /\ message' = position
    /\ message_value' = RecordAt(position)
    /\ result' = "pending"
    /\ calls' = << >>
    /\ handled' = << >>
    /\ writes' = 0
    /\ err0' = error_count
    /\ proc0' = processing_count
    /\ ConsumeRaises("deserialize")
    /\ UNCHANGED <<api, broker, registry, appPc, shutdown_event, mongo, position, hidx,
                   error_count, processing_count, appError, exitCode, restarts,
                   startPos, registered, settled, projected, signalAt, crashRec>>

\* Faulty variant: an exception is caught and logged, not counted.
ErrorNotCounted(count, raised) == count

\* `self._error_count += 1` in the except clause of the handler loop and in
\* the outer except clause of process_message.
CountError(count, raised) == IF raised THEN count + 1 ELSE count

\* Faulty variant: a record is counted only when none of its handlers raised.
AccountOnlySuccess(count, raised) == IF raised THEN count ELSE count + 1

\* self._processing_count += 1 after the handler loop, whatever the handlers
\* did.
AccountProcessed(count, raised) == count + 1

\* The iterator returns a record and process_message runs up to the handler
\* loop. running is checked first; it is true whenever the task is here.
Fetch ==
    /\ conPc = "poll"
    /\ position < Len(log)
    /\ ~DeserializerRaises(RecordAt(position))
    /\ running
    /\ LET value == RecordAt(position)
           class == Classify(value, registry)
           handlers == GetHandlers(registry, value.after.event_type)
       IN  /\ message' = position
           /\ message_value' = value
           /\ position' = NextPosition(position)
           /\ committed' \in AutoCommit(committed, NextPosition(position))
           /\ log' = Retain(log, committed')
           /\ err0' = error_count
           /\ proc0' = processing_count
           /\ calls' = << >>
           /\ handled' = << >>
           /\ writes' = 0
           /\ error_count' = CountError(error_count, class = "invalid")
           /\ IF class = "dispatch" /\ handlers # << >>
              THEN /\ conPc' = "dispatch"
                   /\ hidx' = 1
                   /\ result' = "pending"
                   /\ UNCHANGED <<settled, processing_count>>
              ELSE \* process_message returns: a result after the loop over
                   \* the handlers (here over none), else None
                   /\ conPc' = "commit"
                   /\ hidx' = 0
                   /\ result' = IF class = "dispatch" THEN "result" ELSE "none"
                   /\ processing_count' = IF class = "dispatch"
                                          THEN AccountProcessed(processing_count, FALSE)
                                          ELSE processing_count
                   /\ settled' = settled \cup {position}
    /\ UNCHANGED <<api, store, registry, appPc, shutdown_event, running, kafka, mongo,
                   taskError, appError, exitCode, restarts, startPos, registered,
                   projected, signalAt, crashRec, shutdowns>>

\* One turn of the handler loop: validate, then handle; an exception of
\* either is counted and the loop goes on. After the last handler the record
\* is accounted for and process_message returns its result.
HandlerStep ==
    /\ conPc = "dispatch"
    /\ LET h == Handlers[hidx]
       IN  \E valid \in ValidateOutcomes(h), store_ok \in BOOLEAN :
             LET out == IF valid = "true" THEN Handle(h, store, Event, store_ok)
                        ELSE Outcome(store, ValidateRaises(valid))
                 next == NextHandler(hidx, Len(Handlers), out.raised)
             IN  /\ valid = "true" \/ store_ok
                 /\ store' = out.store
                 /\ calls' = Append(calls, <<h, valid, out.raised, store_ok>>)
                 /\ handled' = IF valid = "true" THEN Append(handled, h) ELSE handled
                 /\ writes' = IF valid = "true" /\ ~out.raised /\ ~OverridesValidate(h)
                              THEN writes + 1 ELSE writes
                 /\ error_count' = CountError(error_count, out.raised)
                 /\ hidx' = next
                 /\ committed' \in AutoCommit(committed, position)
                 /\ log' = Retain(log, committed')
                 /\ IF next > Len(Handlers)
                    THEN /\ processing_count' =
                                AccountProcessed(processing_count,
                                                 \E k \in 1..Len(calls') : calls'[k][3])
                         /\ result' = "result"
                         /\ settled' = settled \cup {message}
                         /\ projected' = IF \E k \in 1..Len(calls') : calls'[k][3]
                                         THEN projected
                                         ELSE projected \cup {Event.event_id}
                         /\ conPc' = "commit"
                    ELSE /\ UNCHANGED <<processing_count, result, settled, projected>>
                         /\ conPc' = "dispatch"
    /\ UNCHANGED <<api, registry, appPc, shutdown_event, running, kafka, mongo, position,
                   message, message_value, taskError, appError, exitCode, restarts,
                   startPos, registered, err0, proc0, signalAt, crashRec, shutdowns>>

\* await self.consumer.commit(), then back to the iterator.
Commit ==
    /\ conPc = "commit"
    /\ committed' = IF kafka_enable_auto_commit THEN committed ELSE CommitOffset(position)
    /\ log' = Retain(log, committed')
    /\ conPc' = "poll"
    /\ crashRec' = StillPending(crashRec, committed')
    /\ UNCHANGED <<api, store, registry, appPc, shutdown_event, running, kafka, mongo,
                   position, message, message_value, hidx, error_count, processing_count, taskError,
                   appError, exitCode, restarts, startPos, result, registered, calls, handled,
                   writes, err0, proc0, settled, projected, signalAt, shutdowns>>

\* commit() raises (the group rebalanced, the broker is gone).
CommitFail ==
    /\ conPc = "commit"
    /\ ~kafka_enable_auto_commit
    /\ ConsumeRaises("commit")
    /\ UNCHANGED <<api, broker, registry, appPc, shutdown_event, mongo, position, message, message_value,
                   hidx, error_count, processing_count, appError, exitCode, restarts,
                   startPos, result, registered, calls, handled, writes, err0, proc0, settled,
                   projected,
                   signalAt, crashRec>>

\* --------------------------------------------------------- the application
\* A signal handler installed by setup_signal_handlers sets the event.
Signal ==
    /\ Alive
    /\ ~shutdown_event
    /\ shutdown_event' = TRUE
    /\ signalAt' = IF conPc = "dispatch" THEN message ELSE -1
    /\ UNCHANGED <<api, broker, registry, appPc, conPc, running, kafka, mongo, position,
                   message, message_value, hidx, error_count, processing_count, taskError, appError,
                   exitCode, restarts, startPos, result, registered, calls, handled, writes, err0,
                   proc0, settled, projected, crashRec, shutdowns>>

\* A connect() that builds a client whether or not one is held: the one held
\* before is dropped unclosed.
ConnectNoGuard(client, ping_ok) ==
    [client |-> IF ping_ok THEN "connected" ELSE "unpinged",
     opened |-> 1,
     raised |-> ~ping_ok]

\* MongoDBManager.connect(): all constructions give the one instance, so
\* there is one _client. With a client held nothing is done; otherwise the
\* client is built and assigned, then pinged: a failed ping raises and
\* leaves the client in place.
ConnectCall(client, ping_ok) ==
    IF client # "none"
    THEN [client |-> client, opened |-> 0, raised |-> FALSE]
    ELSE [client |-> IF ping_ok THEN "connected" ELSE "unpinged",
          opened |-> 1,
          raised |-> ~ping_ok]

\* A disconnect() without the test: close() on no client raises.
DisconnectNoGuard(client) ==
    [client |-> "none", closed |-> 1, raised |-> client = "none"]

\* MongoDBManager.disconnect(): with a client held, close it and hold none;
\* with none held, nothing.
DisconnectCall(client) ==
    IF client # "none"
    THEN [client |-> "none", closed |-> 1, raised |-> FALSE]
    ELSE [client |-> client, closed |-> 0, raised |-> FALSE]

\* MongoDBManager.client (db and collection go through it): RuntimeError
\* when no client is held, else the client held.
ClientAccessor(client) == [returned |-> client, raised |-> client = "none"]

\* startup: mongodb.connect(). When it raises, run goes to its finally.
Connect ==
    /\ appPc = "connect"
    /\ \E ping_ok \in BOOLEAN :
         LET r == ConnectCall(mongo, ping_ok) IN
         /\ mongo' = r.client
         /\ opened' = opened + r.opened
         /\ appError' = r.raised
         /\ appPc' = IF r.raised THEN "shutdown" ELSE "initialize"
    /\ UNCHANGED <<lastCall, closed, broker, registry, conPc, shutdown_event, running, kafka, position,
                   message, message_value, hidx, error_count, processing_count, taskError, exitCode,
                   history>>

\* startup: consumer.initialize() builds the consumer and starts it.
Initialize ==
    /\ appPc = "initialize"
    /\ \E start_ok \in BOOLEAN :
         IF start_ok
         THEN /\ kafka' = "started"
              /\ position' = StartPosition(committed, Len(log))
              /\ startPos' = StartPosition(committed, Len(log))
              /\ appPc' = "run"
              /\ appError' = FALSE
         ELSE /\ kafka' = "created"
              /\ appPc' = "shutdown"
              /\ appError' = TRUE
              /\ UNCHANGED <<position, startPos>>
    /\ UNCHANGED <<api, broker, registry, conPc, shutdown_event, running, mongo, message, message_value,
                   hidx, error_count, processing_count, taskError, exitCode, restarts,
                   result, registered, calls, handled, writes, err0, proc0, settled, projected,
                   signalAt, crashRec, shutdowns>>

\* run: create_task(consume()), then await shutdown_event.wait(). When the
\* event is already set the wait does not suspend, and the task is cancelled
\* before its first step: the body of consume() never runs.
StartConsume ==
    /\ appPc = "run"
    /\ IF shutdown_event
       THEN /\ conPc' = "done"
            /\ appPc' = "shutdown"
       ELSE /\ conPc' = "created"
            /\ appPc' = "wait"
    /\ UNCHANGED <<api, broker, registry, shutdown_event, running, kafka, mongo, position,
                   message, message_value, hidx, error_count, processing_count, taskError, appError,
                   exitCode, history>>

\* Faulty variant: run does not wait for the cancelled task.
TaskNotAwaited(pc) == pc

\* Where the consume task is once `await consume_task` has returned or raised:
\* the task has ended.
TaskAfterAwait(pc) == "done"

\* Faulty variant: the process always exits with 0.
ExitZero(raised) == 0

\* main: sys.exit(1) when run raised, else the interpreter exits with 0.
ExitStatus(raised) == IF raised THEN 1 ELSE 0

\* run wakes up: consume_task.cancel(), await consume_task. CancelledError is
\* raised in the task at the await it is suspended in; it is no Exception, so
\* neither except Exception clause of process_message catches it; consume()
\* logs it and runs shutdown() in its finally clause. The operation the task
\* was awaiting (a handler's store write, the commit) has or has not taken
\* effect. A task that had ended with an exception re-raises it here.
Cancel ==
    /\ appPc = "wait"
    /\ shutdown_event
    /\ appPc' = "shutdown"
    /\ conPc' = TaskAfterAwait(conPc)
    /\ appError' = (taskError # "none")
    /\ \E applied \in BOOLEAN :
         /\ store' = IF conPc = "dispatch" /\ applied
                     THEN Handle(Handlers[hidx], store, Event, TRUE).store
                     ELSE store
         /\ committed' = IF conPc = "commit" /\ applied /\ ~kafka_enable_auto_commit
                         THEN CommitOffset(position)
                         ELSE IF kafka_enable_auto_commit /\ conPc \notin {"created", "done"}
                         THEN position
                         ELSE committed
         /\ log' = Retain(log, committed')
         /\ crashRec' = StillPending(crashRec, committed')
         /\ applied \/ conPc \in {"dispatch", "commit"}
    /\ IF conPc \in {"created", "done"}
       THEN UNCHANGED <<running, kafka, shutdowns>>
       ELSE ConsumerShutdown
    /\ UNCHANGED <<api, registry, shutdown_event, mongo, position, message, message_value, hidx,
                   error_count, processing_count, taskError, exitCode, restarts,
                   startPos, result, registered, calls, handled, writes, err0, proc0, settled,
                   projected,
                   signalAt>>

\* The finally clause of run: Application.shutdown calls consumer.shutdown().
AppShutdown ==
    /\ appPc = "shutdown"
    /\ appPc' = "disconnect"
    /\ ConsumerShutdown
    /\ UNCHANGED <<api, broker, registry, conPc, shutdown_event, mongo, position, message, message_value,
                   hidx, error_count, processing_count, taskError, appError, exitCode,
                   restarts, startPos, result, registered, calls, handled, writes, err0, proc0,
                   settled, projected, signalAt, crashRec>>

\* ... then mongodb.disconnect(): close the client when there is one. main
\* exits with 1 when run raised, else with 0.
Disconnect ==
    /\ appPc = "disconnect"
    /\ LET r == DisconnectCall(mongo) IN
         /\ mongo' = r.client
         /\ closed' = closed + r.closed
    /\ appPc' = "exited"
    /\ exitCode' = ExitStatus(appError)
    /\ UNCHANGED <<lastCall, opened, broker, registry, conPc, shutdown_event, running, kafka, position,
                   message, message_value, hidx, error_count, processing_count, taskError, appError,
                   history>>

\* What is in the memory of a process that is gone or new.
Forgotten ==
    /\ conPc' = "idle"
    /\ shutdown_event' = FALSE
    /\ running' = FALSE
    /\ kafka' = "none"
    /\ mongo' = "none"
    /\ position' = 0
    /\ message' = -1
    /\ message_value' = NoValue
    /\ hidx' = 0
    /\ error_count' = 0
    /\ processing_count' = 0
    /\ taskError' = "none"
    /\ appError' = FALSE
    /\ exitCode' = -1
    /\ startPos' = 0
    /\ result' = "none"
    /\ calls' = << >>
    /\ handled' = << >>
    /\ writes' = 0
    /\ err0' = 0
    /\ proc0' = 0
    /\ signalAt' = -1
    /\ shutdowns' = 0
    /\ opened' = 0
    /\ closed' = 0

\* The process dies (kill -9, power loss). A store write or a commit the task
\* was awaiting has or has not taken effect.
Crash ==
    /\ Alive
    /\ appPc' = "crashed"
    /\ \E applied \in BOOLEAN :
         /\ applied \/ conPc \in {"dispatch", "commit"}
         /\ store' = IF conPc = "dispatch" /\ applied
                     THEN Handle(Handlers[hidx], store, Event, TRUE).store
                     ELSE store
         /\ committed' = IF conPc = "commit" /\ applied /\ ~kafka_enable_auto_commit
                         THEN CommitOffset(position)
                         ELSE committed
    /\ log' = Retain(log, committed')
    /\ crashRec' = IF conPc \in {"dispatch", "commit"} /\ handled # << >>
                      /\ committed' <= message
                   THEN message ELSE StillPending(crashRec, committed')
    /\ Forgotten
    /\ UNCHANGED <<lastCall, registry, restarts, registered, settled, projected>>

\* The process is started again: everything in memory is new, the log, the
\* committed offset and the store are as they were left.
Restart ==
    /\ ~Alive
    /\ restarts < MaxRestarts
    /\ restarts' = restarts + 1
    /\ appPc' = "connect"
    /\ Forgotten
    /\ UNCHANGED <<lastCall, broker, registry, registered, settled, projected, crashRec>>

Next ==
    \/ Produce
    \/ ConsumeBegin
    \/ PollFail
    \/ FetchUndecodable
    \/ Fetch
    \/ HandlerStep
    \/ Commit
    \/ CommitFail
    \/ Signal
    \/ Connect
    \/ Initialize
    \/ StartConsume
    \/ Cancel
    \/ AppShutdown
    \/ Disconnect
    \/ Crash
    \/ Restart

Spec == Init /\ [][Next]_vars

\* The runs without a shutdown signal, a crash, or an error of the broker at
\* the poll or the commit. The event loop runs the consume task whenever it
\* can take a step, so the steps of the task are weakly fair.
LiveNext ==
    \/ Produce
    \/ ConsumeBegin
    \/ FetchUndecodable
    \/ Fetch
    \/ HandlerStep
    \/ Commit
    \/ Connect
    \/ Initialize
    \/ StartConsume
    \/ AppShutdown
    \/ Disconnect
    \/ Restart

LiveSpec ==
    /\ Init
    /\ [][LiveNext]_vars
    /\ WF_vars(ConsumeBegin)
    /\ WF_vars(FetchUndecodable)
    /\ WF_vars(Fetch)
    /\ WF_vars(HandlerStep)
    /\ WF_vars(Commit)

\* The runs without a signal or a crash in which the broker may fail at the
\* poll or at the commit. The event loop runs the consume task and
\* Application.run whenever they can take a step.
FatalNext ==
    \/ LiveNext
    \/ PollFail
    \/ CommitFail

FatalSpec ==
    /\ Init
    /\ [][FatalNext]_vars
    /\ WF_vars(ConsumeBegin)
    /\ WF_vars(FetchUndecodable)
    /\ WF_vars(Fetch)
    /\ WF_vars(HandlerStep)
    /\ WF_vars(Commit)
    /\ WF_vars(Connect)
    /\ WF_vars(Initialize)
    /\ WF_vars(StartConsume)
    /\ WF_vars(AppShutdown)
    /\ WF_vars(Disconnect)

\* The projections: the connector appends well-formed events, possibly the
\* same event more than once, and the process may crash and start again, so
\* that an event is delivered a second time.
ProduceProjection ==
    /\ Len(log) < MaxEvents
    /\ conPc = "poll"
    /\ position = Len(log)
    /\ \E value \in ProjectionValues : log' = Append(log, value)
    /\ UNCHANGED <<api, committed, store, process, history>>

ProjectionNext ==
    \/ ProduceProjection
    \/ ConsumeBegin
    \/ Fetch
    \/ HandlerStep
    \/ Commit
    \/ Connect
    \/ Initialize
    \/ StartConsume
    \/ AppShutdown
    \/ Disconnect
    \/ Crash
    \/ Restart

ProjectionSpec == Init /\ [][ProjectionNext]_vars

\* ------------------------------------------- the objects called from outside
\* handler_registry.register(h), after the registry was built.
RegisterCall ==
    /\ Len(registered) - Len(RegistrationOrder) < MaxRegistered
    /\ \E h \in HandlerNames :
         /\ registry' = Register(registry, h)
         /\ registered' = Append(registered, h)
         /\ lastCall' = <<"register", h, << >>, FALSE>>
    /\ UNCHANGED <<broker, appPc, conPc, shutdown_event, running, kafka, mongo, position,
                   message, message_value, hidx, error_count, processing_count, taskError,
                   appError, exitCode, restarts, startPos, result, calls, handled, writes,
                   err0, proc0, settled, projected, signalAt, crashRec, shutdowns,
                   opened, closed>>

\* handler_registry.get_handlers(event_type).
GetHandlersLookup ==
    /\ \E event_type \in EventTypes :
         LET r == GetHandlersCall(registry, event_type) IN
         /\ registry' = r.handlers
         /\ lastCall' = <<"get_handlers", event_type, r.returned, FALSE>>
    /\ UNCHANGED <<broker, appPc, conPc, shutdown_event, running, kafka, mongo, position,
                   message, message_value, hidx, error_count, processing_count, taskError,
                   appError, exitCode, history, opened, closed>>

\* MongoDBManager().connect(), on whichever construction: there is one
\* instance.
GatewayConnect ==
    /\ opened < MaxClients
    /\ \E ping_ok \in BOOLEAN :
         LET r == ConnectCall(mongo, ping_ok) IN
         /\ mongo' = r.client
         /\ opened' = opened + r.opened
         /\ lastCall' = <<"connect", mongo, << >>, r.raised>>
    /\ UNCHANGED <<broker, registry, appPc, conPc, shutdown_event, running, kafka, position,
                   message, message_value, hidx, error_count, processing_count, taskError,
                   appError, exitCode, history, closed>>

\* MongoDBManager().disconnect().
GatewayDisconnect ==
    /\ LET r == DisconnectCall(mongo) IN
         /\ mongo' = r.client
         /\ closed' = closed + r.closed
         /\ lastCall' = <<"disconnect", mongo, << >>, r.raised>>
    /\ UNCHANGED <<broker, registry, appPc, conPc, shutdown_event, running, kafka, position,
                   message, message_value, hidx, error_count, processing_count, taskError,
                   appError, exitCode, history, opened>>

\* MongoDBManager().client, or collection(name).
GatewayClient ==
    /\ lastCall' = <<"client", mongo, << >>, ClientAccessor(mongo).raised>>
    /\ UNCHANGED <<broker, process, history, opened, closed>>

\* The registry and the store manager under any sequence of calls.
ApiNext ==
    \/ RegisterCall
    \/ GetHandlersLookup
    \/ GatewayConnect
    \/ GatewayDisconnect
    \/ GatewayClient

ApiSpec == Init /\ [][ApiNext]_vars

\* ---------------------------------------------------------------- properties
\* The handlers registered for the event type of the record in flight, in the
\* order of the register calls.
RegisteredForEvent ==
    SelectSeq(registered, LAMBDA h : EventTypeOf(h) = Event.event_type)

\* The handlers the loop reached, and those whose validate returned true.
Reached == [k \in 1..Len(calls) |-> calls[k][1]]
Validated == SelectSeq(calls, LAMBDA c : c[2] = "true")
ValidatedNames == [k \in 1..Len(Validated) |-> Validated[k][1]]

\* process_message has returned for the record in flight.
Returned == message # -1 /\ result # "pending"

\* The loop took a record, dispatched it and is back at the iterator.
BackAtPoll == message # -1 /\ conPc = "poll"

\* C1: the committed offset covers only records whose process_message has
\* returned: every offset below it is one for which dispatch completed.
C1_CommitAfterDispatch ==
    \A o \in 0..(Len(log) - 1) : o < committed => o \in settled

C1_Witness ==
    /\ committed = message + 1
    /\ result = "result"
    /\ Len(handled) = 2

\* C2: after a crash that hit a record of which a handler had returned and
\* whose offset was not committed, every later run of the group, as long as
\* the offset of that record is not committed, starts fetching at or before
\* the record, so the record is delivered again.
C2_RedeliveredAfterCrash ==
    (crashRec # -1 /\ kafka = "started") => startPos <= crashRec

C2_Witness ==
    /\ restarts > 0
    /\ crashRec # -1
    /\ message = crashRec
    /\ conPc = "dispatch"

\* C3: a shutdown signal that arrives while a record is in dispatch does not
\* keep the record from being committed: when the loop has ended without an
\* error, the offset of that record is committed.
C3_SignalMidRecordCommits ==
    (signalAt # -1 /\ conPc = "done" /\ taskError = "none") => committed > signalAt

\* C4: after a shutdown by signal the record in flight is either committed,
\* and then process_message has returned for it and the loop reached every
\* one of its handlers, or not committed at all; the committed offset is never
\* beyond it.
C4_ShutdownSafety ==
    (shutdown_event /\ appPc = "exited" /\ message # -1) =>
        /\ committed <= message + 1
        /\ committed = message + 1 =>
             /\ result # "pending"
             /\ result = "result" => Reached = Handlers

C4_Witness ==
    /\ appPc = "exited"
    /\ message # -1
    /\ signalAt = message
    /\ result = "pending"
    /\ handled # << >>
    /\ committed <= message

\* C5: when a handler raised for an event, the loop still reached every
\* handler registered for the event type, those before and those after it,
\* and invoked handle of each whose validate returned true.
C5_FailureIsolation ==
    (Returned /\ \E i \in 1..Len(calls) : calls[i][3]) =>
        /\ Reached = Handlers
        /\ handled = ValidatedNames

C5_Witness ==
    /\ Returned
    /\ Len(calls) >= 2
    /\ calls[1][3]
    /\ calls[2][2] = "true"
    /\ handled = Handlers

\* C6: for a dispatched event the loop reaches the handlers registered for its
\* type, each once, in the order of their registration, and invokes handle
\* exactly of those whose validate returned true, once each, in that order.
C6_DispatchComplete ==
    (Returned /\ result = "result") =>
        /\ Reached = RegisteredForEvent
        /\ handled = ValidatedNames

C6_Witness ==
    /\ Returned
    /\ result = "result"
    /\ Len(RegisteredForEvent) = 2
    /\ Len(handled) = 2

\* C7: for an envelope with op d or r no handler is reached, nothing is
\* written to the store, process_message returns no result, and when the loop
\* is back at the iterator the offset of the record is committed.
IsSkip == message # -1 /\ message_value.op \in {"d", "r"}

C7_SkipSemantics ==
    IsSkip =>
        /\ calls = << >>
        /\ handled = << >>
        /\ writes = 0
        /\ result = "none"
        /\ BackAtPoll => committed = message + 1

C7_Witness ==
    /\ IsSkip
    /\ message_value.after.kind = "dict"
    /\ BackAtPoll
    /\ committed = message + 1

\* C8: an envelope with op d or r changes neither error_count nor
\* processed_count, whatever its other fields hold.
C8_SkipIsNoError ==
    IsSkip => (error_count = err0 /\ processing_count = proc0)

\* C9: a record that cannot be decoded reaches no handler, adds one to
\* error_count, does not end the loop, and has its offset committed when the
\* loop is back at the iterator.
Undecodable(raw) ==
    \/ DeserializerRaises(raw)
    \/ ~DebeziumPayloadValid(raw)
    \/ (raw.op \notin {"d", "r"} /\ ~OutboxEventValid(raw.after))

C9_PoisonRecordSkipped ==
    (message # -1 /\ Undecodable(message_value)) =>
        /\ calls = << >>
        /\ error_count = err0 + 1
        /\ taskError # "deserialize"
        /\ BackAtPoll => committed = message + 1

\* C11: when validate of a handler returned false for the event in flight,
\* handle of that handler is not invoked and its turn is no error: error_count
\* grew by the number of handlers that raised and by nothing else; once
\* process_message has returned every handler of the type was reached and
\* handle was invoked of each whose validate returned true; and when the loop
\* is back at the iterator the offset of the record is committed.
RejectedCalls == {k \in 1..Len(calls) : calls[k][2] = "false"}
RaisedCalls == {k \in 1..Len(calls) : calls[k][3]}

C11_ValidationReject ==
    (message # -1 /\ RejectedCalls # {}) =>
        /\ \A k \in RejectedCalls :
              /\ ~calls[k][3]
              /\ \A j \in 1..Len(handled) : handled[j] # calls[k][1]
        /\ error_count = err0 + Cardinality(RaisedCalls)
        /\ Returned => (Reached = Handlers /\ handled = ValidatedNames)
        /\ BackAtPoll => committed = message + 1

C11_Witness ==
    /\ BackAtPoll
    /\ Len(calls) = 2
    /\ calls[1][2] = "false"
    /\ calls[2][2] = "true"
    /\ handled = <<calls[2][1]>>
    /\ error_count = err0
    /\ committed = message + 1

\* C12: without a signal, a crash or a broker error, every record the consumer
\* is delivered eventually has its offset committed, whatever the record
\* holds.
C12_NoRecordStalls ==
    \A o \in 0..(MaxLog - 1) : (message = o) ~> (committed > o)

\* C10: an event whose type has no registered handler writes nothing, changes
\* neither counter, yields no result, and has its offset committed when the
\* loop is back at the iterator.
NoHandlersCase ==
    /\ message # -1
    /\ DebeziumPayloadValid(message_value)
    /\ message_value.op \notin {"d", "r"}
    /\ OutboxEventValid(message_value.after)
    /\ Handlers = << >>

C10_NoHandlers ==
    NoHandlersCase =>
        /\ writes = 0
        /\ calls = << >>
        /\ error_count = err0
        /\ processing_count = proc0
        /\ result = "none"
        /\ BackAtPoll => committed = message + 1

C10_Witness ==
    /\ NoHandlersCase
    /\ BackAtPoll
    /\ committed = message + 1

\* The event in flight is one an earlier delivery has projected: every handler
\* of it returned without an exception then.
Redelivery == conPc = "dispatch" /\ Event.event_id \in projected

\* The event in flight is a ParticipantJoined redelivered for an activity that
\* has a document.
JoinReplayed ==
    /\ Redelivery
    /\ Event.event_type = "ParticipantJoined"
    /\ Event.aggregate_id \in DOMAIN store.activities

\* C13: a step taken while a ParticipantJoined event is delivered again leaves
\* current_count of the activity as it was.
C13_ReplayKeepsCount ==
    [][JoinReplayed =>
         store'.activities[Event.aggregate_id].current_count
             = store.activities[Event.aggregate_id].current_count]_vars

\* C14: a step taken while a ParticipantJoined event is delivered again leaves
\* participants.list and allowed_users of the activity as they were: one entry
\* for the join, the user id once.
C14_ReplayKeepsMembers ==
    [][JoinReplayed =>
         /\ store'.activities[Event.aggregate_id].list
               = store.activities[Event.aggregate_id].list
         /\ store'.activities[Event.aggregate_id].allowed_users
               = store.activities[Event.aggregate_id].allowed_users]_vars

C14_Witness ==
    /\ message # -1
    /\ Event.event_type = "ParticipantJoined"
    /\ Event.event_id \in projected
    /\ Event.aggregate_id \in DOMAIN store.activities
    /\ LET doc == store.activities[Event.aggregate_id]
       IN  /\ doc.current_count = 2
           /\ Len(doc.list) = 1
           /\ doc.allowed_users = <<"u1", "u2">>

\* C15: a step taken while a UserCreated or ActivityCreated event is delivered
\* again leaves the whole projection state as it was after the first delivery.
C15_CreateIdempotent ==
    [][(Redelivery /\ Event.event_type \in {"UserCreated", "ActivityCreated"}) =>
         store' = store]_vars

\* C16: when UserCreatedHandler is called for a user whose document exists and
\* the store answers, the handler does not raise and error_count stays.
C16_InsertConflictIsSuccess ==
    [][(/\ conPc = "dispatch"
        /\ Handlers[hidx] = "UserCreatedHandler"
        /\ Event.aggregate_id \in DOMAIN store.users
        /\ Len(calls') = Len(calls) + 1
        /\ calls'[Len(calls')][4]) =>
         /\ ~calls'[Len(calls')][3]
         /\ error_count' = error_count]_vars

\* total_users of the statistics document, 0 when there is none.
TotalUsers(st) ==
    IF "global_stats" \in DOMAIN st.statistics
    THEN st.statistics["global_stats"].total_users
    ELSE 0

\* C17: a step taken while a UserCreated event is delivered again leaves
\* total_users as it was.
C17_RedeliveryKeepsTotalUsers ==
    [][(Redelivery /\ Event.event_type = "UserCreated") =>
         TotalUsers(store') = TotalUsers(store)]_vars

\* The handlers that update a document, and the collection each looks in.
UpdateHandlers == {"UserUpdatedHandler", "ActivityUpdatedHandler", "ParticipantJoinedHandler"}
CollectionOf(h) == IF h = "UserUpdatedHandler" THEN "users" ELSE "activities"

\* The loop is at an update handler and the aggregate has no document.
NotFoundCase ==
    /\ conPc = "dispatch"
    /\ Handlers[hidx] \in UpdateHandlers
    /\ Event.aggregate_id \notin DOMAIN store[CollectionOf(Handlers[hidx])]

\* The record in flight is an update whose handler raised though the store
\* answered.
NotFoundRaised ==
    /\ message # -1
    /\ calls # << >>
    /\ calls[1][1] \in UpdateHandlers
    /\ calls[1][3]
    /\ calls[1][4]

\* C18: an update handler called for an aggregate without a document writes
\* nothing and raises, which is counted as one error; the record is not
\* fetched again, and when the loop is back at the iterator its offset is
\* committed.
C18_UpdateOfMissingDocument ==
    /\ [][NotFoundCase =>
            /\ store' = store
            /\ Len(calls') = Len(calls) + 1 =>
                 /\ calls'[Len(calls')][3]
                 /\ error_count' = error_count + 1
                 /\ position' = position]_vars
    /\ [](NotFoundRaised =>
            /\ writes = 0
            /\ error_count = err0 + 1
            /\ BackAtPoll => (committed = message + 1 /\ position = message + 1))

C18_Witness ==
    /\ NotFoundRaised
    /\ calls = << <<"UserUpdatedHandler", "true", TRUE, TRUE>> >>
    /\ Event.aggregate_id \notin DOMAIN store.users
    /\ BackAtPoll
    /\ committed = message + 1

\* C19: a document that a step creates lists exactly its creator in
\* allowed_users: a user document the user itself, an activity document the
\* creator_user_id of the payload.
C19_AllowedUsersSeed ==
    [][/\ \A id \in DOMAIN store'.users \ DOMAIN store.users :
            /\ id = Event.aggregate_id
            /\ store'.users[id].allowed_users = <<id>>
       /\ \A id \in DOMAIN store'.activities \ DOMAIN store.activities :
            /\ id = Event.aggregate_id
            /\ store'.activities[id].allowed_users
                  = <<Get(Event.payload, "creator_user_id")>>]_vars

C19_Witness ==
    /\ "u1" \in DOMAIN store.users
    /\ "a1" \in DOMAIN store.activities
    /\ store.users["u1"].allowed_users = <<"u1">>
    /\ store.activities["a1"].allowed_users = <<"u1">>
    /\ Event.event_type \in {"UserCreated", "ActivityCreated"}
    /\ BackAtPoll

\* C20: the loop takes the records one at a time in offset order: a record is
\* taken only when process_message of the one before has returned, it is the
\* next offset, and while a record is in dispatch every earlier record of the
\* run is done and only handlers of the record in flight have been reached.
C20_OneRecordAtATime ==
    /\ [][(conPc = "poll" /\ conPc' \in {"dispatch", "commit"}) =>
            /\ result # "pending"
            /\ message' = position
            /\ message # -1 => message' = message + 1]_vars
    /\ [](conPc = "dispatch" =>
            /\ \A o \in startPos..(message - 1) : o \in settled
            /\ \A k \in 1..Len(calls) : EventTypeOf(calls[k][1]) = Event.event_type)

C20_Witness ==
    /\ conPc = "dispatch"
    /\ restarts = 0
    /\ message = 1
    /\ 0 \in settled
    /\ Len(calls) = 1

\* C21: when mongodb.disconnect() is about to be called, and ever after in the
\* run, the consume task has ended or was never started, consumer.shutdown()
\* has run and the Kafka consumer is stopped; and once the store is
\* disconnected no step of the run writes to it.
C21_ShutdownOrder ==
    /\ [](appPc \in {"disconnect", "exited"} =>
            /\ conPc \in {"idle", "done"}
            /\ shutdowns >= 1
            /\ ~running
            /\ kafka \in {"none", "stopped"})
    /\ [][appPc = "exited" => store' = store]_vars

C21_Witness ==
    /\ appPc = "exited"
    /\ mongo = "none"
    /\ conPc = "done"
    /\ writes > 0
    /\ signalAt # -1

\* C22: after mongodb.connect() failed (the client is there, the ping failed)
\* the Kafka consumer is never built, the consume task never starts, no record
\* is taken, nothing is committed or written, the shutdown sequence runs, and
\* the process exits with status 1.
C22_ConnectFailure ==
    /\ [](mongo = "unpinged" =>
            /\ appError
            /\ appPc \in {"shutdown", "disconnect"}
            /\ kafka = "none"
            /\ conPc = "idle"
            /\ message = -1)
    /\ [][mongo = "unpinged" =>
            /\ committed' = committed
            /\ store' = store
            /\ (mongo' # "unpinged" /\ appPc' # "crashed") =>
                 /\ appPc' = "exited"
                 /\ exitCode' = 1
                 /\ shutdowns' = 1
                 /\ kafka' = "none"]_vars

C22_Witness ==
    /\ appPc = "exited"
    /\ exitCode = 1
    /\ kafka = "none"
    /\ shutdowns = 1
    /\ message = -1

\* C23: when the consume task has ended with an error of the poll or of the
\* commit, the process eventually exits with status 1, no signal needed.
C23_FatalErrorExits ==
    (taskError \in {"broker", "commit"}) ~> (appPc = "exited" /\ exitCode = 1)

\* C24: a record whose op is neither c nor u is never dispatched: no handler
\* is reached for it and process_message returns no result.
C24_OnlyCreateOrUpdate ==
    (message # -1 /\ message_value.op \notin {"c", "u"}) =>
        /\ conPc # "dispatch"
        /\ calls = << >>
        /\ result # "result"

\* The handlers of event type T among those registered, in the order of
\* their register calls.
RegisteredFor(T) == SelectSeq(registered, LAMBDA h : EventTypeOf(h) = T)

\* C25: get_handlers(T) returns exactly the handlers registered for T, in the
\* order of their register calls, a handler registered twice appearing
\* twice; and a register call appends the handler to the list of its own
\* event type and leaves the list of every other type as it was.
C25_RegisterAppendsToOwnType ==
    /\ [](\A T \in EventTypes : GetHandlers(registry, T) = RegisteredFor(T))
    /\ [][registered' # registered =>
            LET h == registered'[Len(registered')] IN
            /\ registered' = Append(registered, h)
            /\ \A T \in EventTypes :
                 GetHandlers(registry', T) =
                     IF T = EventTypeOf(h) THEN Append(GetHandlers(registry, T), h)
                     ELSE GetHandlers(registry, T)]_vars

\* A handler was registered a second time and its type's list holds it twice,
\* after the handlers registered before it.
C25_Witness ==
    /\ lastCall = <<"register", "UserCreatedHandler", << >>, FALSE>>
    /\ GetHandlers(registry, "UserCreated") =
           <<"UserCreatedHandler", "UserStatisticsHandler", "UserCreatedHandler">>

\* C26: for every event type, has_handlers(T), get_handlers(T) being
\* non-empty and T being among registered_event_types are the same; and a
\* get_handlers of a type nobody registered returns the empty list, raises
\* nothing and leaves the registry as it was.
C26_LookupsAgree ==
    /\ [](\A T \in EventTypes :
             /\ HasHandlers(registry, T) <=> GetHandlers(registry, T) # << >>
             /\ HasHandlers(registry, T) <=> T \in RegisteredEventTypes(registry))
    /\ [][(lastCall' # lastCall /\ lastCall'[1] = "get_handlers") =>
            /\ registry' = registry
            /\ ~lastCall'[4]
            /\ (RegisteredFor(lastCall'[2]) = << >> => lastCall'[3] = << >>)]_vars

\* An event type nobody registered was looked up.
C26_Witness ==
    /\ lastCall = <<"get_handlers", "UnknownEvent", << >>, FALSE>>
    /\ "UnknownEvent" \notin RegisteredEventTypes(registry)
    /\ Len(registered) > Len(RegistrationOrder)

\* A call of the named method on the store manager has just returned or raised.
GatewayCalled(method) == lastCall' # lastCall /\ lastCall'[1] = method

\* C27: disconnect() called with no client held (never connected, or already
\* disconnected) changes nothing and raises nothing; called after a connect,
\* failed or not, it closes that client and raises nothing; after any
\* disconnect() no client is held.
C27_DisconnectIdempotent ==
    [][GatewayCalled("disconnect") =>
         /\ mongo' = "none"
         /\ ~lastCall'[4]
         /\ mongo = "none" => UNCHANGED <<broker, process, history, opened, closed>>
         /\ mongo # "none" => opened' = opened /\ closed' = closed + 1]_vars

\* disconnect() was called again after a disconnect() that followed a failed
\* connect.
C27_Witness ==
    /\ lastCall = <<"disconnect", "none", << >>, FALSE>>
    /\ opened = 1
    /\ closed = 1
    /\ mongo = "none"

\* The store clients that are open.
OpenClients == opened - closed

\* C28: at most one store client is open at any time; one is held exactly when
\* one is open; connect() with a client held creates none and keeps the one
\* held; so the connect() and disconnect() of one run create one client and
\* close that one.
C28_OneClient ==
    /\ [](/\ OpenClients \in {0, 1}
          /\ mongo = "none" <=> OpenClients = 0)
    /\ [][(GatewayCalled("connect") /\ mongo # "none") =>
            /\ opened' = opened
            /\ mongo' = mongo
            /\ ~lastCall'[4]]_vars
    /\ [][GatewayCalled("connect") /\ mongo = "none" => opened' = opened + 1]_vars

\* connect() was called with a client held, and one client is open.
C28_Witness ==
    /\ lastCall[1] = "connect"
    /\ lastCall[2] # "none"
    /\ opened = 1
    /\ closed = 0
    /\ mongo # "none"

\* The record taken failed decoding or validation and is no skipped envelope.
FailedRecord ==
    /\ message # -1
    /\ message_value.op \notin {"d", "r"}
    /\ Undecodable(message_value)

\* C29: error_count grows, record by record, by the handler invocations that
\* raised plus one when the record failed decoding or validation; a skipped
\* envelope, an event without handlers and a rejection by validate leave it
\* as it was.
C29_ErrorCount ==
    message # -1 =>
        /\ error_count = err0 + Cardinality(RaisedCalls)
                              + (IF FailedRecord THEN 1 ELSE 0)
        /\ (IsSkip \/ NoHandlersCase) => error_count = err0

\* The record taken was decoded, is no skipped envelope and has a handler.
Countable ==
    /\ message # -1
    /\ ~Undecodable(message_value)
    /\ message_value.op \notin {"d", "r"}
    /\ Handlers # << >>

\* C30: when process_message has returned for a record that was decoded, not
\* skipped and has a handler, processing_count is one more than before and a
\* result was returned, whatever its handlers did; for every other record
\* the count is as before; and the count of a process never decreases.
C30_ProcessedCount ==
    /\ [](message # -1 =>
            /\ (Returned /\ Countable) =>
                   processing_count = proc0 + 1 /\ result = "result"
            /\ ~Countable => processing_count = proc0 /\ result # "result"
            /\ processing_count \in {proc0, proc0 + 1})
    /\ [][(restarts' = restarts /\ appPc' # "crashed") =>
              processing_count' >= processing_count]_vars

\* A record all of whose handlers raised or rejected the event was counted.
C30_Witness ==
    /\ Returned
    /\ Countable
    /\ Len(calls) = 2
    /\ RaisedCalls \cup RejectedCalls = 1..Len(calls)
    /\ RaisedCalls # {}
    /\ processing_count = proc0 + 1
    /\ result = "result"

\* The step is a turn of the handler loop in which handler h was called and
\* returned.
HandlerReturned(h) ==
    /\ Len(calls') = Len(calls) + 1
    /\ calls'[Len(calls')][1] = h
    /\ calls'[Len(calls')][2] = "true"
    /\ ~calls'[Len(calls')][3]

\* C31: a UserUpdated that succeeds leaves every field of the user document
\* whose key is not in the payload as it was (the derived name and the
\* metadata updated_at and last_event_id set aside): so last_name when only
\* first_name is supplied, and allowed_users.
C31_PartialUpdate ==
    [][HandlerReturned("UserUpdatedHandler") =>
         LET id == Event.aggregate_id
             payload == Event.payload
         IN  \A k \in DOMAIN store.users[id] \ {"name", "updated_at", "last_event_id"} :
                k \notin DOMAIN payload => store'.users[id][k] = store.users[id][k]]_vars

\* The handlers that write to the store, and the document each one writes
\* for event e in store st.
ProjectionHandlers == UpdateHandlers \cup
    {"UserCreatedHandler", "UserStatisticsHandler", "ActivityCreatedHandler"}

WrittenDocument(h, st, e) ==
    CASE h \in {"UserCreatedHandler", "UserUpdatedHandler"} -> st.users[e.aggregate_id]
      [] h = "UserStatisticsHandler" -> st.statistics["global_stats"]
      [] OTHER -> st.activities[e.aggregate_id]

\* C32: when a handler has written a document (create, update, participant
\* join, statistics increment), the document's last_event_id is the id of the
\* event handled and its updated_at is the time of the write.
C32_Breadcrumb ==
    [][\A h \in ProjectionHandlers :
         HandlerReturned(h) =>
            LET doc == WrittenDocument(h, store', Event)
            IN  /\ "last_event_id" \in DOMAIN doc
                /\ doc.last_event_id = Event.event_id
                /\ "updated_at" \in DOMAIN doc
                /\ doc.updated_at = Now]_vars

\* The body of consume() is running: between `self.running = True` and the
\* end of its finally clause.
InConsume == conPc \in {"poll", "dispatch", "commit"}

C34_ShutdownOnce ==
    (appPc = "exited" /\ (message # -1 \/ taskError # "none")) => shutdowns = 1

\* C35: at every point of the loop a run that would start now starts at the
\* record in flight or right after it: every record the loop took before it
\* is committed and is not delivered again; and the run after a crash starts
\* no earlier than the record the crash hit.
C35_OnlyInFlightRedelivered ==
    /\ message # -1 =>
          StartPosition(committed, Len(log)) \in {message, message + 1}
    /\ (crashRec # -1 /\ kafka = "started") => startPos >= crashRec

\* After a crash in the second record the new run has taken that record again
\* and nothing before it.
C35_Witness ==
    /\ restarts > 0
    /\ crashRec = 1
    /\ startPos = 1
    /\ message = 1
    /\ committed = 1
    /\ 0 \in settled

\* The step is a turn of the handler loop in which validate or handle raised.
HandlerRaised ==
    /\ Len(calls') = Len(calls) + 1
    /\ calls'[Len(calls')][3]

\* The step hands process_message a record whose envelope or event does not
\* validate.
InvalidTaken ==
    /\ conPc = "poll"
    /\ message' = position
    /\ message_value'.json
    /\ \/ ~DebeziumPayloadValid(message_value')
       \/ (message_value'.op \notin {"d", "r"} /\ ~OutboxEventValid(message_value'.after))

\* C36: an exception of validate or handle, and an envelope or event that
\* does not validate, are counted and the loop goes on, to the next handler
\* or to the commit; the loop ends only by cancellation after a signal, by an
\* exception of the iterator, or by an exception of commit().
C36_ProcessMessageCatches ==
    /\ [][HandlerRaised =>
            /\ error_count' = error_count + 1
            /\ conPc' \in {"dispatch", "commit"}
            /\ taskError' = taskError]_vars
    /\ [][InvalidTaken =>
            /\ error_count' = error_count + 1
            /\ conPc' = "commit"
            /\ calls' = << >>
            /\ taskError' = taskError]_vars
    /\ [][(InConsume /\ conPc' = "done") =>
            \/ shutdown_event /\ appPc = "wait" /\ taskError' = "none"
            \/ conPc = "poll" /\ taskError' \in {"broker", "deserialize"}
            \/ conPc = "commit" /\ taskError' = "commit"]_vars

\* Both handlers of a record raised, the record was committed and the loop is
\* back at the iterator.
C36_Witness ==
    /\ BackAtPoll
    /\ Len(calls) = 2
    /\ RaisedCalls = {1, 2}
    /\ error_count = err0 + 2
    /\ committed = message + 1
    /\ taskError = "none"

\* C37: in every activity document no two entries of participants.list have
\* the same user_id.
C37_OneEntryPerUser ==
    \A a \in DOMAIN store.activities :
        LET list == store.activities[a].list
        IN  \A i, j \in 1..Len(list) : i # j => list[i].user_id # list[j].user_id

\* The elements of an array field.
Elements(array) == { array[i] : i \in 1..Len(array) }

\* C38: in every activity document allowed_users holds the creator id and the
\* user_id of every entry of participants.list; and no step removes an id
\* from the allowed_users of an activity or removes the activity.
C38_AllowedUsersCoverMembers ==
    /\ [](\A a \in DOMAIN store.activities :
            LET doc == store.activities[a]
            IN  /\ doc.creator_id \in Elements(doc.allowed_users)
                /\ \A i \in 1..Len(doc.list) :
                      doc.list[i].user_id \in Elements(doc.allowed_users))
    /\ [][\A a \in DOMAIN store.activities :
            /\ a \in DOMAIN store'.activities
            /\ Elements(store.activities[a].allowed_users)
                   \subseteq Elements(store'.activities[a].allowed_users)]_vars

\* An activity with a participant was updated: the creator and the participant
\* are authorized.
C38_Witness ==
    /\ "a1" \in DOMAIN store.activities
    /\ store.activities["a1"].last_event_id = "e5"
    /\ Len(store.activities["a1"].list) = 1
    /\ store.activities["a1"].allowed_users = <<"u1", "u2">>

\* C39: the client accessor returns a client exactly when the last connect()
\* since the last disconnect() passed its ping, and raises otherwise; and when
\* connect() has raised because the ping failed no client is held.
C39_AccessorNeedsConnect ==
    /\ lastCall[1] = "client" => (~lastCall[4] <=> lastCall[2] = "connected")
    /\ (lastCall[1] = "connect" /\ lastCall[4]) => mongo = "none"

====
